---- MODULE Spec2Model ----
(***************************************************************************)
(* A model of nnrs: the layered network (network.rs, node.rs, edge.rs,     *)
(* layer.rs, activationfn.rs), the mutation operators (neat/mutation.rs)   *)
(* and the training loop (neat/environment.rs, neat/settings.rs).          *)
(*                                                                         *)
(* f64 values are modelled as integers; serialization adds the one         *)
(* non-finite value NaN.  In the training loop an individual is the record *)
(* of the parent it was cloned from and of the number of mutation          *)
(* operators it received.  ActivationFn keeps the variants                 *)
(* that are closed over the integers (Linear, ReLU, Step); Sigmoid, Tanh   *)
(* and LeakyReLU need exp, tanh and 0.01*x and are left out.  A node's     *)
(* threshold field is never read by any modelled code and is left out.     *)
(***************************************************************************)
EXTENDS Integers, Sequences, FiniteSets, TLC

(***************************************************************************)
(* Bounds of the model                                                     *)
(***************************************************************************)
MaxNodes == 2
MaxEdges == 1
MaxHidden == 1
MaxPopulation == 3
MaxRate == 2
MaxGenerations == 2

(***************************************************************************)
(* layer.rs                                                                *)
(***************************************************************************)
InputLayer == [kind |-> "InputLayer", n |-> 0]
OutputLayer == [kind |-> "OutputLayer", n |-> 0]
HiddenLayer(i) == [kind |-> "HiddenLayer", n |-> i]

\* a comparison of ordinals that never answers Equal
UsizeCmp_NeverEqual(x, y) == IF x <= y THEN "Less" ELSE "Greater"

\* usize::cmp
UsizeCmp(x, y) == IF x < y THEN "Less" ELSE IF x = y THEN "Equal" ELSE "Greater"

\* impl Ord for LayerID: the match arms in the order of the source
LayerCmp(a, b) ==
    IF a.kind = "InputLayer" /\ b.kind = "InputLayer" THEN "Equal"
    ELSE IF a.kind = "InputLayer" THEN "Less"
    ELSE IF a.kind = "OutputLayer" /\ b.kind = "OutputLayer" THEN "Equal"
    ELSE IF a.kind = "OutputLayer" THEN "Greater"
    ELSE IF a.kind = "HiddenLayer" /\ b.kind = "HiddenLayer" THEN UsizeCmp(a.n, b.n)
    ELSE IF b.kind = "InputLayer" THEN "Greater"
    ELSE "Less"

\* impl PartialEq for LayerID
LayerEq(a, b) ==
    IF a.kind = "InputLayer" /\ b.kind = "InputLayer" THEN TRUE
    ELSE IF a.kind = "OutputLayer" /\ b.kind = "OutputLayer" THEN TRUE
    ELSE IF a.kind = "HiddenLayer" /\ b.kind = "HiddenLayer" THEN a.n = b.n
    ELSE FALSE

\* a comparison that lets equal layers pass (>= for >)
LayerGt_OrEqual(a, b) == LayerCmp(a, b) # "Less"

\* the operators > and < that PartialOrd derives from cmp
LayerGt(a, b) == LayerCmp(a, b) = "Greater"
LayerLt(a, b) == LayerCmp(a, b) = "Less"

\* LayerID::is_hidden
is_hidden(l) == l.kind = "HiddenLayer"

\* Vec<LayerID>::contains
LayersContain(layers, l) == \E i \in 1..Len(layers) : LayerEq(layers[i], l)

(***************************************************************************)
(* activationfn.rs                                                         *)
(***************************************************************************)
Linear == [fn |-> "Linear", t |-> 0]
ReLU == [fn |-> "ReLU", t |-> 0]
Step(t) == [fn |-> "Step", t |-> t]

Run(act, x) ==
    CASE act.fn = "ReLU" -> IF x > 0 THEN x ELSE 0
      [] act.fn = "Linear" -> x
      [] act.fn = "Step" -> IF x > act.t THEN 1 ELSE 0

(***************************************************************************)
(* Results: Ok(val) or Err(msg)                                            *)
(***************************************************************************)
Ok(v) == [ok |-> TRUE, val |-> v, err |-> ""]
Err(m) == [ok |-> FALSE, val |-> 0, err |-> m]

(***************************************************************************)
(* Helpers on sequences                                                    *)
(***************************************************************************)
Max(S) == CHOOSE x \in S : \A y \in S : y <= x

\* iter().max().unwrap_or(0) over the ids of a sequence of records
MaxIdOrZero(s) == IF Len(s) = 0 THEN 0 ELSE Max({s[i].id : i \in 1..Len(s)})

\* the index of the first element with the given id, 0 when there is none
\* (iter().find(|x| x.id == id))
FirstIndex(s, id) ==
    IF \E i \in 1..Len(s) : s[i].id = id
    THEN CHOOSE i \in 1..Len(s) : s[i].id = id /\ \A j \in 1..(i - 1) : s[j].id # id
    ELSE 0

\* Vec::remove(index), 1-based
RemoveAt(s, i) == SubSeq(s, 1, i - 1) \o SubSeq(s, i + 1, Len(s))

(***************************************************************************)
(* network.rs: lookups                                                     *)
(***************************************************************************)
\* get_node / get_node_mut: the position of the node, 0 for None
get_node(net, node_id) ==
    FirstIndex(net.nodes, node_id)

\* get_edge: the position of the edge, 0 for None
get_edge(net, edge_id) ==
    FirstIndex(net.edges, edge_id)

\* a lookup that finds every layer, declared or not
get_layer_Undeclared(net, layer_id) ==
    LET T(i) == LayerEq(net.nodes[i].layer_id, layer_id)
        all == [i \in 1..Len(net.nodes) |-> i]
    IN  [some |-> TRUE, idx |-> SelectSeq(all, T)]

\* get_layer / get_layer_mut: [some, idx] with the positions of the layer's
\* nodes in enumeration order; None when the layer is not declared
get_layer(net, layer_id) ==
    LET T(i) == LayerEq(net.nodes[i].layer_id, layer_id)
        all == [i \in 1..Len(net.nodes) |-> i]
    IN  IF ~LayersContain(net.layers, layer_id)
        THEN [some |-> FALSE, idx |-> <<>>]
        ELSE [some |-> TRUE, idx |-> SelectSeq(all, T)]

input_node_ids(net) ==
    LET T(n) == LayerEq(n.layer_id, InputLayer)
        s == SelectSeq(net.nodes, T)
    IN  [i \in 1..Len(s) |-> s[i].id]

output_node_ids(net) ==
    LET T(n) == LayerEq(n.layer_id, OutputLayer)
        s == SelectSeq(net.nodes, T)
    IN  [i \in 1..Len(s) |-> s[i].id]

(***************************************************************************)
(* node.rs                                                                 *)
(***************************************************************************)
\* a kind inference that makes every node an Input node
NodeTypeOf_AlwaysInput(layer_id) == "InputNode"

\* the match on layer_id in create_with_custom_activation
NodeTypeOf(layer_id) ==
    CASE layer_id.kind = "InputLayer" -> "InputNode"
      [] layer_id.kind = "OutputLayer" -> "OutputNode"
      [] layer_id.kind = "HiddenLayer" -> "HiddenNode"

\* an id taken from the number of nodes instead of the highest id
NextNodeId_Count(net) == Len(net.nodes) + 1

\* the id a node creation picks
NextNodeId(net) == MaxIdOrZero(net.nodes) + 1

\* Node::create_with_custom_activation: [net, ret]
create_with_custom_activation(net, layer_id, bias, activation_fn) ==
    LET id == NextNodeId(net) IN
    IF get_node(net, id) # 0
    THEN [net |-> net, ret |-> Err("Node already exists")]
    ELSE IF ~get_layer(net, layer_id).some
    THEN [net |-> net, ret |-> Err("Layer does not exist")]
    ELSE LET node == [node_type |-> NodeTypeOf(layer_id),
                      id |-> id,
                      layer_id |-> layer_id,
                      value |-> 0,
                      bias |-> bias,
                      activation_fn |-> activation_fn]
         IN  [net |-> [net EXCEPT !.nodes = Append(@, node)], ret |-> Ok(id)]

\* a creation that refuses every layer
NodeCreate_Refuses(net, layer_id, bias) ==
    [net |-> net, ret |-> Err("Layer does not exist")]

\* Node::create
NodeCreate(net, layer_id, bias) ==
    create_with_custom_activation(net, layer_id, bias, net.activation_fn)

\* Node::add_value
add_value(node, v) == [node EXCEPT !.value = @ + v]

\* a reset that leaves the accumulator as it is
reset_Keep(node) == node

reset(node) == [node EXCEPT !.value = 0]

(***************************************************************************)
(* edge.rs                                                                 *)
(***************************************************************************)
NextEdgeId(net) == MaxIdOrZero(net.edges) + 1

\* an Edge::create that pushes the edge before it validates the endpoints
EdgeCreate_PushFirst(net, node_from_id, node_to_id, weight) ==
    LET id == MaxIdOrZero(net.edges) + 1
        f == get_node(net, node_from_id)
        t == get_node(net, node_to_id)
        edge == [id |-> id, weight |-> weight,
                 node_from_id |-> node_from_id, node_to_id |-> node_to_id]
        pushed == [net EXCEPT !.edges = Append(@, edge)]
    IN  IF f = 0 THEN [net |-> pushed, ret |-> Err("Node from does not exist")]
        ELSE IF t = 0 THEN [net |-> pushed, ret |-> Err("Node to does not exist")]
        ELSE IF ~LayerGt(net.nodes[t].layer_id, net.nodes[f].layer_id)
        THEN [net |-> pushed, ret |-> Err("node_to must be in a layer after node_from")]
        ELSE [net |-> pushed, ret |-> Ok(id)]

\* Edge::create: [net, ret]
EdgeCreate(net, node_from_id, node_to_id, weight) ==
    LET id == NextEdgeId(net)
        f == get_node(net, node_from_id)
        t == get_node(net, node_to_id)
    IN  IF f = 0 THEN [net |-> net, ret |-> Err("Node from does not exist")]
        ELSE IF t = 0 THEN [net |-> net, ret |-> Err("Node to does not exist")]
        ELSE IF ~LayerGt(net.nodes[t].layer_id, net.nodes[f].layer_id)
        THEN [net |-> net, ret |-> Err("node_to must be in a layer after node_from")]
        ELSE IF get_edge(net, id) # 0
        THEN [net |-> net, ret |-> Err("Edge already exists")]
        ELSE LET edge == [id |-> id, weight |-> weight,
                          node_from_id |-> node_from_id, node_to_id |-> node_to_id]
             IN  [net |-> [net EXCEPT !.edges = Append(@, edge)], ret |-> Ok(id)]

(***************************************************************************)
(* network.rs: construction                                                *)
(***************************************************************************)
\* an add_layer that always declares Hidden(0)
add_layer_AlwaysZero(net) ==
    [net |-> [net EXCEPT !.layers = Append(@, HiddenLayer(0))], ret |-> Ok(HiddenLayer(0))]

\* Network::add_layer: [net, ret], ret.val the new layer id
add_layer(net) ==
    LET hidden_layers == SelectSeq(net.layers, is_hidden)
        \* hidden_layers.sort(); hidden_layers.last()
        last == CHOOSE h \in {hidden_layers[i] : i \in 1..Len(hidden_layers)} :
                    \A i \in 1..Len(hidden_layers) : ~LayerGt(hidden_layers[i], h)
        next_layer == IF Len(hidden_layers) = 0 THEN HiddenLayer(0)
                      ELSE HiddenLayer(last.n + 1)
    IN  [net |-> [net EXCEPT !.layers = Append(@, next_layer)], ret |-> Ok(next_layer)]

\* the loops of Network::create: ct nodes pushed into one layer, `?` on failure
RECURSIVE CreateNodes(_, _, _)
CreateNodes(r, layer_id, ct) ==
    IF ct = 0 \/ ~r.ret.ok THEN r
    ELSE CreateNodes(NodeCreate(r.net, layer_id, 0), layer_id, ct - 1)

\* Network::create: [net, ret]
NetworkCreate(input_ct, output_ct, activation_fn) ==
    LET network == [nodes |-> <<>>,
                    edges |-> <<>>,
                    layers |-> <<InputLayer, OutputLayer>>,
                    activation_fn |-> activation_fn]
        ins == CreateNodes([net |-> network, ret |-> Ok(0)], InputLayer, input_ct)
    IN  CreateNodes(ins, OutputLayer, output_ct)

(***************************************************************************)
(* network.rs: fire.  A pass carries the node vector, and acts, which      *)
(* counts for every node position how often lines 178-179 (bias added,     *)
(* activation applied) ran on it.                                          *)
(***************************************************************************)
\* lines 129-142: for each id, the edges leaving it, in edge order
RECURSIVE OutEdges(_, _)
OutEdges(ids, edges) ==
    IF Len(ids) = 0 THEN <<>>
    ELSE LET T(e) == e.node_from_id = Head(ids)
         IN  SelectSeq(edges, T) \o OutEdges(Tail(ids), edges)

\* lines 144-155: add source value * weight to the destination, edge by edge
RECURSIVE Propagate(_, _)
Propagate(net, es) ==
    IF Len(es) = 0 THEN [net |-> net, ret |-> Ok(0)]
    ELSE LET e == Head(es)
             f == get_node(net, e.node_from_id)
             t == get_node(net, e.node_to_id)
         IN  IF f = 0 THEN [net |-> net, ret |-> Err("Node from does not exist")]
             ELSE IF t = 0 THEN [net |-> net, ret |-> Err("Node to does not exist")]
             ELSE Propagate(
                    [net EXCEPT !.nodes[t] = add_value(@, net.nodes[f].value * e.weight)],
                    Tail(es))

\* a successor that does not fall back to the Output layer
NextLayer_NoFallback(net, id) ==
    CASE id.kind = "InputLayer" -> HiddenLayer(0)
      [] id.kind = "HiddenLayer" -> HiddenLayer(id.n + 1)
      [] id.kind = "OutputLayer" -> OutputLayer

\* a successor that is the Output layer after every layer
NextLayer_AlwaysOutput(net, id) == OutputLayer

\* lines 158-166
NextLayer(net, id) ==
    LET next_layer == CASE id.kind = "InputLayer" -> HiddenLayer(0)
                        [] id.kind = "HiddenLayer" -> HiddenLayer(id.n + 1)
                        [] id.kind = "OutputLayer" -> OutputLayer
    IN  IF ~LayersContain(net.layers, next_layer) THEN OutputLayer ELSE next_layer

\* an activation that forgets the bias
Activate_NoBias(node) == [node EXCEPT !.value = Run(node.activation_fn, node.value)]

\* lines 177-180 on one node
Activate(node) ==
    LET biased == add_value(node, node.bias)
    IN  [biased EXCEPT !.value = Run(node.activation_fn, biased.value)]

\* Network::fire_layer on a pass p = [net, acts]: [net, acts, ret]
fire_layer(p, id) ==
    LET net == p.net
        own == get_layer(net, id)
    IN  IF ~own.some THEN [net |-> net, acts |-> p.acts, ret |-> Err("Layer does not exist")]
        ELSE
        LET ids == [i \in 1..Len(own.idx) |-> net.nodes[own.idx[i]].id]
            pr == Propagate(net, OutEdges(ids, net.edges))
        IN  IF ~pr.ret.ok THEN [net |-> pr.net, acts |-> p.acts, ret |-> pr.ret]
            ELSE
            LET next_layer == NextLayer(pr.net, id)
                layer == get_layer(pr.net, next_layer)
                hit == {layer.idx[i] : i \in 1..Len(layer.idx)}
            IN  IF ~layer.some
                THEN [net |-> pr.net, acts |-> p.acts, ret |-> Err("Layer does not exist")]
                ELSE [net |-> [pr.net EXCEPT !.nodes =
                                  [i \in 1..Len(pr.net.nodes) |->
                                      IF i \in hit /\ LayerEq(pr.net.nodes[i].layer_id, next_layer)
                                      THEN Activate(pr.net.nodes[i]) ELSE pr.net.nodes[i]]],
                      acts |-> [i \in 1..Len(p.acts) |->
                                  IF i \in hit /\ LayerEq(pr.net.nodes[i].layer_id, next_layer)
                                  THEN p.acts[i] + 1 ELSE p.acts[i]],
                      ret |-> Ok(0)]

\* lines 96-98: fire_layer for each declared layer in vector order, `?` on failure
RECURSIVE FireLayers(_, _)
FireLayers(p, layers) ==
    IF Len(layers) = 0 \/ ~p.ret.ok THEN p
    ELSE FireLayers(fire_layer(p, Head(layers)), Tail(layers))

\* the order of a pass: what the loop of lines 96-98 does to the node values,
\* one event per add_value of an edge (lines 144-155: the source is read, the
\* destination written) and one per node activated (lines 177-180), until a
\* lookup fails
RECURSIVE FireTrace(_, _)
FireTrace(net, layers) ==
    IF Len(layers) = 0 THEN <<>>
    ELSE
    LET id == Head(layers)
        own == get_layer(net, id)
    IN  IF ~own.some THEN <<>>
        ELSE
        LET ids == [i \in 1..Len(own.idx) |-> net.nodes[own.idx[i]].id]
            es == OutEdges(ids, net.edges)
            bad == {i \in 1..Len(es) : \/ get_node(net, es[i].node_from_id) = 0
                                       \/ get_node(net, es[i].node_to_id) = 0}
            sent == [i \in 1..Len(es) |->
                       [ev |-> "edge", from |-> es[i].node_from_id, to |-> es[i].node_to_id]]
            next_layer == NextLayer(net, id)
            layer == get_layer(net, next_layer)
            activated == [i \in 1..Len(layer.idx) |->
                            [ev |-> "activate", from |-> net.nodes[layer.idx[i]].id,
                             to |-> net.nodes[layer.idx[i]].id]]
        IN  IF bad # {}
            THEN SubSeq(sent, 1, (CHOOSE i \in bad : \A j \in bad : i <= j) - 1)
            ELSE IF ~layer.some THEN sent
            ELSE sent \o activated \o FireTrace(net, Tail(layers))

\* lines 87-94: the input nodes, in enumeration order, zipped with the inputs
LoadInputs(net, inputs) ==
    LET T(i) == LayerEq(net.nodes[i].layer_id, InputLayer)
        ins == SelectSeq([i \in 1..Len(net.nodes) |-> i], T)
    IN  [net EXCEPT !.nodes =
            [i \in 1..Len(net.nodes) |->
                IF \E k \in 1..Len(ins) : ins[k] = i /\ k <= Len(inputs)
                THEN [net.nodes[i] EXCEPT !.value =
                        inputs[CHOOSE k \in 1..Len(ins) : ins[k] = i]]
                ELSE net.nodes[i]]]

\* a count over all nodes instead of the Input nodes
InputCount_AllNodes(net) == Len(net.nodes)

\* the number of nodes whose layer is Input (lines 79-83)
InputCount(net) ==
    Cardinality({i \in 1..Len(net.nodes) : LayerEq(net.nodes[i].layer_id, InputLayer)})

\* lines 111-113
ResetAll(net) == [net EXCEPT !.nodes = [i \in 1..Len(net.nodes) |-> reset(net.nodes[i])]]

\* Network::fire: [net, outputs, acts, ret]
fire(net, inputs, outputs) ==
    LET zero == [i \in 1..Len(net.nodes) |-> 0] IN
    IF InputCount(net) # Len(inputs)
    THEN [net |-> net, outputs |-> outputs, acts |-> zero,
          ret |-> Err("Number of inputs does not match number of input nodes")]
    ELSE
    LET loaded == LoadInputs(net, inputs)
        p == FireLayers([net |-> loaded, acts |-> zero, ret |-> Ok(0)], net.layers)
        output_layer == get_layer(p.net, OutputLayer)
    IN  IF ~p.ret.ok
        THEN [net |-> p.net, outputs |-> outputs, acts |-> p.acts, ret |-> p.ret]
        ELSE IF ~output_layer.some
        THEN [net |-> p.net, outputs |-> outputs, acts |-> p.acts,
              ret |-> Err("Output layer does not exist")]
        ELSE [net |-> ResetAll(p.net),
              outputs |-> [i \in 1..Len(output_layer.idx) |->
                              p.net.nodes[output_layer.idx[i]].value],
              acts |-> p.acts,
              ret |-> Ok(0)]

(***************************************************************************)
(* neat/mutation.rs.  mutate draws from thread_rng; every draw is a choice, *)
(* so mutate yields the set of its possible outcomes [net, ret].  R holds  *)
(* the sets the draws range over (biases, weights, wdeltas, bdeltas, acts).  *)
(***************************************************************************)
Mutations == {"AddNode", "AddLayer", "AddEdge", "RemoveNode", "RemoveEdge",
              "ChangeWeight", "ChangeBias", "ChangeActivationFn"}

\* `Node::create(..)?; Ok(())` and `Edge::create(..)?; Ok(())`
Done(r) == [net |-> r.net, ret |-> IF r.ret.ok THEN Ok(0) ELSE r.ret, chain |-> <<>>]

\* an arm that ran to `Ok(())`
Applied(net) == [net |-> net, ret |-> Ok(0), chain |-> <<>>]

\* outcomes of a call of mutate(mutation): the operator is first in their chain
Entered(mutation, S) == {[r EXCEPT !.chain = <<mutation>> \o @] : r \in S}

\* a removal that forgets the sweep over the edges
RemoveNodeAt_KeepEdges(net, node_index) ==
    [net EXCEPT !.nodes = RemoveAt(@, node_index)]

\* a removal by the node's position among the hidden nodes (filter before
\* enumerate) instead of its position among all nodes
RemoveNodeAt_FilteredIndex(net, node_index) ==
    LET id == net.nodes[node_index].id
        Keep(e) == e.node_from_id # id /\ e.node_to_id # id
        k == Cardinality({i \in 1..node_index : is_hidden(net.nodes[i].layer_id)})
    IN  [net EXCEPT !.edges = SelectSeq(@, Keep),
                    !.nodes = RemoveAt(@, k)]

\* lines 146-148: drop the edges incident to the node, then the node
RemoveNodeAt(net, node_index) ==
    LET id == net.nodes[node_index].id
        Keep(e) == e.node_from_id # id /\ e.node_to_id # id
    IN  [net EXCEPT !.edges = SelectSeq(@, Keep),
                    !.nodes = RemoveAt(@, node_index)]

\* a change that moves the bias of every node
ChangeBiasAt_All(net, node_index, delta) ==
    [net EXCEPT !.nodes = [i \in 1..Len(net.nodes) |->
                              [net.nodes[i] EXCEPT !.bias = @ + delta]]]

\* line 188: node.bias += delta on the node chosen
ChangeBiasAt(net, node_index, delta) ==
    [net EXCEPT !.nodes[node_index].bias = @ + delta]

\* a test that never finds the pair connected
AnyEdge_Never(net, node_from_id, node_to_id) == FALSE

\* lines 117-120: some edge goes from the first node to the second
AnyEdge(net, node_from_id, node_to_id) ==
    \E k \in 1..Len(net.edges) :
        /\ net.edges[k].node_from_id = node_from_id
        /\ net.edges[k].node_to_id = node_to_id

\* MutableNetwork::mutate: the set of outcomes [net, ret, chain]; chain lists
\* the operators entered, the requested one first, then the fallbacks
RECURSIVE mutate(_, _, _)
mutate(net, mutation, R) ==
    Entered(mutation,
    CASE mutation = "AddNode" ->
            LET layers == SelectSeq(net.layers, is_hidden) IN
            IF Len(layers) = 0 THEN mutate(net, "AddLayer", R)
            ELSE {Done(NodeCreate(net, layers[i], b)) :
                     i \in 1..Len(layers), b \in R.biases}
      [] mutation = "AddLayer" ->
            LET al == add_layer(net) IN
            {Done(NodeCreate(al.net, al.ret.val, b)) : b \in R.biases}
      [] mutation = "AddEdge" ->
            IF Len(net.nodes) = 0 THEN mutate(net, "AddNode", R)
            ELSE UNION {
                LET node1 == net.nodes[i]
                    others == {j \in 1..Len(net.nodes) :
                                  ~LayerEq(net.nodes[j].layer_id, node1.layer_id)}
                IN  IF others = {} THEN mutate(net, "AddNode", R)
                    ELSE UNION {
                        LET node2 == net.nodes[j]
                            fwd == LayerLt(node1.layer_id, node2.layer_id)
                            node_begin == IF fwd THEN node1 ELSE node2
                            node_end == IF fwd THEN node2 ELSE node1
                        IN  IF AnyEdge(net, node_begin.id, node_end.id)
                            THEN mutate(net, "ChangeWeight", R)
                            ELSE {Done(EdgeCreate(net, node_begin.id, node_end.id, w)) :
                                     w \in R.weights}
                        : j \in others}
                : i \in 1..Len(net.nodes)}
      [] mutation = "RemoveNode" ->
            LET hidden == {i \in 1..Len(net.nodes) : is_hidden(net.nodes[i].layer_id)} IN
            IF hidden = {} THEN mutate(net, "AddNode", R)
            ELSE {Applied(RemoveNodeAt(net, i)) : i \in hidden}
      [] mutation = "RemoveEdge" ->
            IF Len(net.edges) = 0 THEN mutate(net, "AddEdge", R)
            ELSE {Applied([net EXCEPT !.edges = RemoveAt(@, i)]) : i \in 1..Len(net.edges)}
      [] mutation = "ChangeWeight" ->
            IF Len(net.edges) = 0 THEN mutate(net, "AddEdge", R)
            ELSE {Applied([net EXCEPT !.edges[i].weight = @ + d]) :
                     i \in 1..Len(net.edges), d \in R.wdeltas}
      [] mutation = "ChangeBias" ->
            IF Len(net.nodes) = 0 THEN mutate(net, "AddNode", R)
            ELSE {Applied(ChangeBiasAt(net, i, d)) :
                     i \in 1..Len(net.nodes), d \in R.bdeltas}
      [] mutation = "ChangeActivationFn" ->
            IF Len(net.nodes) = 0 THEN mutate(net, "AddNode", R)
            ELSE {Applied([net EXCEPT !.nodes[i].activation_fn = a]) :
                     i \in 1..Len(net.nodes), a \in R.acts})

(***************************************************************************)
(* network.rs: serialize / deserialized.  Both hand the struct to          *)
(* serde_json; the derives of Network, Node, Edge and ActivationFn fix the *)
(* document: a struct is an object of its fields, a Vec an array, a unit   *)
(* variant a string, a variant with a value a one-key object.  A number is *)
(* written as its decimal text and read back from that text.  An f64 that  *)
(* is not finite has no JSON number: serde_json writes null for it, and    *)
(* reading an f64 from null is an error.  NaN stands for those values.     *)
(***************************************************************************)
NaN == "NaN"

\* f64::is_finite, decided on the printed form (a number never equals a string)
IsFinite(x) == ToString(x) # ToString(NaN)

JNull == [json |-> "null"]
JNumber(n) == [json |-> "number", text |-> ToString(n)]
JString(s) == [json |-> "string", text |-> s]
JArray(items) == [json |-> "array", items |-> items]
JObject(fields) == [json |-> "object", fields |-> fields]

\* the numbers a document of the model can hold
JsonNumbers == -9..9

\* Serializer::serialize_f64
F64ToJson(x) == IF IsFinite(x) THEN JNumber(x) ELSE JNull

UsizeToJson(n) == JNumber(n)

LayerToJson(l) ==
    IF l.kind = "HiddenLayer"
    THEN JObject([HiddenLayer |-> UsizeToJson(l.n)])
    ELSE JString(l.kind)

ActivationFnToJson(a) ==
    IF a.fn = "Step" THEN JObject([Step |-> F64ToJson(a.t)]) ELSE JString(a.fn)

NodeToJson(node) ==
    JObject([node_type |-> JString(node.node_type),
             id |-> UsizeToJson(node.id),
             layer_id |-> LayerToJson(node.layer_id),
             value |-> F64ToJson(node.value),
             bias |-> F64ToJson(node.bias),
             activation_fn |-> ActivationFnToJson(node.activation_fn)])

EdgeToJson(edge) ==
    JObject([id |-> UsizeToJson(edge.id),
             weight |-> F64ToJson(edge.weight),
             node_from_id |-> UsizeToJson(edge.node_from_id),
             node_to_id |-> UsizeToJson(edge.node_to_id)])

\* Network::serialize
serialize(net) ==
    Ok(JObject([nodes |-> JArray([i \in 1..Len(net.nodes) |-> NodeToJson(net.nodes[i])]),
                edges |-> JArray([i \in 1..Len(net.edges) |-> EdgeToJson(net.edges[i])]),
                layers |-> JArray([i \in 1..Len(net.layers) |-> LayerToJson(net.layers[i])]),
                activation_fn |-> ActivationFnToJson(net.activation_fn)]))

\* the number a decimal text denotes
ParseNumber(text, S) ==
    IF \E n \in S : ToString(n) = text
    THEN Ok(CHOOSE n \in S : ToString(n) = text)
    ELSE Err("invalid number")

\* Deserializer::deserialize_f64
F64FromJson(j) ==
    IF j.json = "number" THEN ParseNumber(j.text, JsonNumbers)
    ELSE Err("invalid type: expected f64")

\* Deserializer::deserialize_u64
UsizeFromJson(j) ==
    IF j.json = "number" THEN ParseNumber(j.text, JsonNumbers \cap Nat)
    ELSE Err("invalid type: expected usize")

LayerFromJson(j) ==
    IF j.json = "string" /\ j.text = "InputLayer" THEN Ok(InputLayer)
    ELSE IF j.json = "string" /\ j.text = "OutputLayer" THEN Ok(OutputLayer)
    ELSE IF j.json = "object" /\ DOMAIN j.fields = {"HiddenLayer"}
    THEN LET n == UsizeFromJson(j.fields.HiddenLayer)
         IN  IF n.ok THEN Ok(HiddenLayer(n.val)) ELSE n
    ELSE Err("unknown variant of LayerID")

ActivationFnFromJson(j) ==
    IF j.json = "string" /\ j.text = "Linear" THEN Ok(Linear)
    ELSE IF j.json = "string" /\ j.text = "ReLU" THEN Ok(ReLU)
    ELSE IF j.json = "object" /\ DOMAIN j.fields = {"Step"}
    THEN LET t == F64FromJson(j.fields.Step)
         IN  IF t.ok THEN Ok(Step(t.val)) ELSE t
    ELSE Err("unknown variant of ActivationFn")

NodeTypeFromJson(j) ==
    IF j.json = "string" /\ j.text \in {"InputNode", "HiddenNode", "OutputNode"}
    THEN Ok(j.text)
    ELSE Err("unknown variant of NodeType")

\* the first error among the results, or the struct made of their values
AllOk(results) == \A k \in DOMAIN results : results[k].ok
FirstErr(results) ==
    LET k == CHOOSE k \in DOMAIN results : ~results[k].ok IN Err(results[k].err)
Values(results) == [k \in DOMAIN results |-> results[k].val]
Collect(results) == IF AllOk(results) THEN Ok(Values(results)) ELSE FirstErr(results)

NodeFromJson(j) ==
    IF j.json # "object" THEN Err("invalid type: expected struct Node")
    ELSE Collect([node_type |-> NodeTypeFromJson(j.fields.node_type),
                  id |-> UsizeFromJson(j.fields.id),
                  layer_id |-> LayerFromJson(j.fields.layer_id),
                  value |-> F64FromJson(j.fields.value),
                  bias |-> F64FromJson(j.fields.bias),
                  activation_fn |-> ActivationFnFromJson(j.fields.activation_fn)])

EdgeFromJson(j) ==
    IF j.json # "object" THEN Err("invalid type: expected struct Edge")
    ELSE Collect([id |-> UsizeFromJson(j.fields.id),
                  weight |-> F64FromJson(j.fields.weight),
                  node_from_id |-> UsizeFromJson(j.fields.node_from_id),
                  node_to_id |-> UsizeFromJson(j.fields.node_to_id)])

\* a Vec read from an array, element by element
NodesFromJson(j) ==
    IF j.json # "array" THEN Err("invalid type: expected a sequence")
    ELSE Collect([i \in 1..Len(j.items) |-> NodeFromJson(j.items[i])])

EdgesFromJson(j) ==
    IF j.json # "array" THEN Err("invalid type: expected a sequence")
    ELSE Collect([i \in 1..Len(j.items) |-> EdgeFromJson(j.items[i])])

LayersFromJson(j) ==
    IF j.json # "array" THEN Err("invalid type: expected a sequence")
    ELSE Collect([i \in 1..Len(j.items) |-> LayerFromJson(j.items[i])])

\* Network::deserialized
deserialized(j) ==
    LET r == IF j.json # "object" THEN Err("invalid type: expected struct Network")
             ELSE Collect([nodes |-> NodesFromJson(j.fields.nodes),
                           edges |-> EdgesFromJson(j.fields.edges),
                           layers |-> LayersFromJson(j.fields.layers),
                           activation_fn |-> ActivationFnFromJson(j.fields.activation_fn)])
    IN  IF r.ok THEN r ELSE Err("Could not deserialize network")

(***************************************************************************)
(* neat/settings.rs, neat/environment.rs.  The population is kept by       *)
(* lineage: an individual records the rank of the seed it was cloned from, *)
(* the number of operators its own turn of the loop applied (own), the     *)
(* number of operators its Network object has received since the seed was  *)
(* cloned (applied), and its fitness.  The operators that randomly_mutate  *)
(* calls on a network are counted, not run.  The evaluator is any          *)
(* function: each evaluation is a choice among Fitnesses.                  *)
(***************************************************************************)
\* TrainingMode
FitnessTarget(x) == [mode |-> "FitnessTarget", x |-> x]
NumGenerations(x) == [mode |-> "NumGenerations", x |-> x]

\* RangeInclusive<usize>: start..=end, empty when start > end
RangeInclusive(start, end) == [start |-> start, end |-> end]
RangeValues(r) == r.start..r.end

\* Option<f64>
None == [some |-> FALSE, val |-> 0]
Some(v) == [some |-> TRUE, val |-> v]

\* Option::unwrap_or_default
unwrap_or_default(o) == IF o.some THEN o.val ELSE 0

\* the starting network, and a clone of the individual at rank `seed`
StartingNetwork == [seed |-> 0, own |-> 0, applied |-> 0, fitness |-> None]

\* Environment::new
EnvironmentNew(settings) ==
    [population |-> [i \in 1..settings.population_size |-> StartingNetwork],
     generation |-> 0,
     settings |-> settings]

\* randomly_mutate: the outcomes of one call, [status, n] with n the number
\* of operators applied.  gen_range panics on an empty range; choose on an
\* empty mutation_types is the error "No mutation types available".
randomly_mutate(settings) ==
    IF RangeValues(settings.mutation_rate) = {}
    THEN {[status |-> "abort", n |-> 0]}
    ELSE {IF num_mutations > 0 /\ settings.mutation_types = 0
          THEN [status |-> "error", n |-> 0]
          ELSE [status |-> "ok", n |-> num_mutations] :
             num_mutations \in RangeValues(settings.mutation_rate)}

\* lines 169-177: `calls` calls of randomly_mutate in a row, `?` after each
RECURSIVE MutateTimes(_, _)
MutateTimes(settings, calls) ==
    IF calls = 0 THEN {[status |-> "ok", n |-> 0]}
    ELSE UNION {IF first.status # "ok" THEN {first}
                ELSE {[status |-> rest.status, n |-> first.n + rest.n] :
                         rest \in MutateTimes(settings, calls - 1)} :
                   first \in randomly_mutate(settings)}

\* lines 167-179 for one pushed network: the number of calls is drawn from
\* mutation_rate (unwrap panics when the range is empty)
MutateOne(settings) ==
    IF RangeValues(settings.mutation_rate) = {}
    THEN {[status |-> "abort", n |-> 0]}
    ELSE UNION {MutateTimes(settings, calls) : calls \in RangeValues(settings.mutation_rate)}

\* lines 166-180: `copies` networks pushed from the one clone of the seed at
\* rank index, whose Network object has received `applied` operators so far:
\* the outcomes [status, pushed]
RECURSIVE Siblings(_, _, _, _)
Siblings(settings, index, copies, applied) ==
    IF copies = 0 THEN {[status |-> "ok", pushed |-> <<>>]}
    ELSE UNION {
        IF m.status # "ok" THEN {[status |-> m.status, pushed |-> <<>>]}
        ELSE {[status |-> rest.status,
               pushed |-> <<[seed |-> index, own |-> m.n, applied |-> applied + m.n,
                             fitness |-> None]>> \o rest.pushed] :
                 rest \in Siblings(settings, index, copies - 1, applied + m.n)}
        : m \in MutateOne(settings)}

\* lines 163-181: the vector `mutated`, seed by seed; index_mut panics when
\* the population has no element at the index
RECURSIVE Mutated(_, _, _)
Mutated(settings, population_len, index) ==
    IF index > settings.next_gen_threshold THEN {[status |-> "ok", pushed |-> <<>>]}
    ELSE LET copies == settings.population_size \div settings.next_gen_threshold
         IN  IF copies > 0 /\ index > population_len
             THEN {[status |-> "abort", pushed |-> <<>>]}
             ELSE UNION {
                 IF s.status # "ok" THEN {s}
                 ELSE {[status |-> rest.status, pushed |-> s.pushed \o rest.pushed] :
                          rest \in Mutated(settings, population_len, index + 1)}
                 : s \in Siblings(settings, index, copies, 0)}

\* evaluate_all: every individual gets the fitness the evaluator returns
evaluate_all(population, values) ==
    [i \in 1..Len(population) |-> [population[i] EXCEPT !.fitness = Some(values[i])]]

\* a selection that leaves the population in the order it was pushed
sort_by_fitness_Unsorted(population) == population

\* sort_by_fitness: Vec::sort_by is stable; descending by fitness
RECURSIVE sort_by_fitness(_)
sort_by_fitness(population) ==
    IF Len(population) = 0 THEN <<>>
    ELSE LET F(i) == unwrap_or_default(population[i].fitness)
             first == CHOOSE i \in 1..Len(population) :
                         /\ \A j \in 1..Len(population) : F(j) <= F(i)
                         /\ \A j \in 1..(i - 1) : F(j) < F(i)
         IN  <<population[first]>> \o sort_by_fitness(RemoveAt(population, first))

\* next_generation: the outcomes [status, population]; the println at line 188
\* reads population[0] and panics when the new population is empty
next_generation(env, fitnesses) ==
    UNION {
        IF m.status # "ok" THEN {[status |-> m.status, population |-> env.population]}
        ELSE IF Len(m.pushed) = 0 THEN {[status |-> "abort", population |-> m.pushed]}
        ELSE {[status |-> "ok",
               population |-> sort_by_fitness(evaluate_all(m.pushed, values))] :
                 values \in [1..Len(m.pushed) -> fitnesses]}
        : m \in Mutated(env.settings, Len(env.population), 1)}

\* a match whose FitnessTarget arm breaks only above the target
Break_Above(env) ==
    IF env.settings.training_mode.mode = "FitnessTarget"
    THEN /\ env.population[1].fitness.some
         /\ env.population[1].fitness.val > env.settings.training_mode.x
    ELSE env.generation >= env.settings.training_mode.x

\* the match on training_mode in run: TRUE when the loop breaks
Break(env) ==
    IF env.settings.training_mode.mode = "FitnessTarget"
    THEN /\ env.population[1].fitness.some
         /\ env.population[1].fitness.val >= env.settings.training_mode.x
    ELSE env.generation >= env.settings.training_mode.x

(***************************************************************************)
(* The state machine                                                       *)
(***************************************************************************)
VARIABLES
    network,    \* the Network: nodes, edges, layers, activation_fn
    outputs,    \* the caller's output buffer after the last fire call
    ret,        \* the last call and what it returned
    acts,       \* per node position, the activations of the last fire pass
    assigned,   \* the highest node id ever assigned in this network
    memo,       \* the first successful fire since the network last changed
    args,       \* the arguments of Network::create or of the last comparison of layers
    environment,\* the Environment: population, generation, settings
    running     \* the call of run: where it is, and the generations it has executed

vars == <<network, outputs, ret, acts, assigned, memo, args, environment, running>>

\* Profiles: the value sets the calls and the random draws range over, and
\* the sizes the exploration stops at.
\* Topo explores the shapes of the graph with one value of each kind.
Topo == [biases |-> {0}, weights |-> {1}, wdeltas |-> {0}, bdeltas |-> {0},
         acts |-> {Linear}, inputs |-> {1}, buffers |-> {<<7>>}, cts |-> {0, 1},
         maxNodes |-> MaxNodes, maxEdges |-> MaxEdges, maxHidden |-> MaxHidden]

\* Rich explores the values a pass computes.
Rich == [biases |-> {0, 1}, weights |-> {2}, wdeltas |-> {0}, bdeltas |-> {-1, 1},
         acts |-> {Linear}, inputs |-> {1, 2}, buffers |-> {<<7>>}, cts |-> {0, 1},
         maxNodes |-> MaxNodes, maxEdges |-> MaxEdges, maxHidden |-> MaxHidden]

\* Scen holds the values of the three-node network of lib.rs (test_creation,
\* test_io): one hidden layer, three nodes, three edges.
Scen == [biases |-> {-1, 0, 2}, weights |-> {-1, 2, 3}, wdeltas |-> {0}, bdeltas |-> {0},
         acts |-> {Linear}, inputs |-> {-2, 1, 3}, buffers |-> {<<7>>}, cts |-> {1},
         maxNodes |-> 3, maxEdges |-> 3, maxHidden |-> 1]

NoMemo == [set |-> FALSE, inputs |-> <<>>, outputs |-> <<>>]

\* no Environment has been made
NoEnvironment == [population |-> <<>>, generation |-> 0, settings |-> <<>>]
Idle == [pc |-> "idle", executed |-> 0]

\* what a call returned: the call, its Result, and for mutate the operators entered
Tag(op, chain, r) == [op |-> op, chain |-> chain, ok |-> r.ok, val |-> r.val, err |-> r.err]

HiddenCount(net) == Len(SelectSeq(net.layers, is_hidden))

\* the part of the state space the model explores
WithinBounds(net, R) ==
    /\ Len(net.nodes) <= R.maxNodes
    /\ Len(net.edges) <= R.maxEdges
    /\ HiddenCount(net) <= R.maxHidden
    /\ MaxIdOrZero(net.nodes) <= R.maxNodes + 1
    /\ MaxIdOrZero(net.edges) <= R.maxEdges + 1
    /\ \A i \in 1..Len(net.nodes) : net.nodes[i].bias \in R.biases
    /\ \A i \in 1..Len(net.edges) : net.edges[i].weight \in R.weights

LayerChoices(R) == {InputLayer, OutputLayer} \cup {HiddenLayer(i) : i \in 0..R.maxHidden}

NodeIdChoices(R) == 1..(R.maxNodes + 1)

InputVectors(R) == UNION {[1..k -> R.inputs] : k \in 0..(InputCount(network) + 1)}

InitR(R) ==
    /\ \E input_ct \in R.cts, output_ct \in R.cts, a \in R.acts :
          network = NetworkCreate(input_ct, output_ct, a).net
    /\ outputs = <<>>
    /\ ret = Tag("Network::create", <<>>, Ok(0))
    /\ acts = <<>>
    /\ assigned = MaxIdOrZero(network.nodes)
    /\ memo = NoMemo
    /\ args = <<>>
    /\ environment = NoEnvironment
    /\ running = Idle

\* a call that is not fire: the network becomes what the call made of it
Structural(op, chain, r, R) ==
    /\ WithinBounds(r.net, R)
    /\ network' = r.net
    /\ ret' = Tag(op, chain, r.ret)
    /\ outputs' = <<>>
    /\ acts' = <<>>
    /\ assigned' = Max({assigned, MaxIdOrZero(r.net.nodes)})
    /\ memo' = NoMemo
    /\ args' = args
    /\ UNCHANGED <<environment, running>>

AddLayerAct(R) ==
    \E r \in {add_layer(network)} :
        Structural("add_layer", <<>>, [net |-> r.net, ret |-> Ok(r.ret.val.n)], R)

NodeCreateAct(layer_id, bias, a, R) ==
    \E r \in {create_with_custom_activation(network, layer_id, bias, a)} :
        Structural("Node::create", <<>>, r, R)

EdgeCreateAct(node_from_id, node_to_id, weight, R) ==
    \E r \in {EdgeCreate(network, node_from_id, node_to_id, weight)} :
        Structural("Edge::create", <<>>, r, R)

MutateAct(mutation, R) ==
    \E r \in mutate(network, mutation, R) : Structural("mutate", r.chain, r, R)

FireAct(inputs, buf) ==
    \E r \in {fire(network, inputs, buf)} :
        /\ network' = r.net
        /\ outputs' = r.outputs
        /\ ret' = Tag("fire", <<>>, r.ret)
        /\ acts' = r.acts
        /\ assigned' = assigned
        /\ memo' = IF r.ret.ok /\ ~memo.set
                   THEN [set |-> TRUE, inputs |-> inputs, outputs |-> r.outputs]
                   ELSE memo
        /\ args' = args
        /\ UNCHANGED <<environment, running>>

AddLayerStep(R) == AddLayerAct(R)
NodeCreateStep(R) ==
    \E l \in LayerChoices(R), b \in R.biases, a \in R.acts : NodeCreateAct(l, b, a, R)
EdgeCreateStep(R) ==
    \E f \in NodeIdChoices(R), t \in NodeIdChoices(R), w \in R.weights :
        EdgeCreateAct(f, t, w, R)
MutateStep(R) == \E m \in Mutations : MutateAct(m, R)
FireStep(R) == \E inputs \in InputVectors(R), buf \in R.buffers : FireAct(inputs, buf)

\* Spec: every operation, over the shapes of the graph
Init == InitR(Topo)
Next ==
    \/ AddLayerStep(Topo)
    \/ NodeCreateStep(Topo)
    \/ EdgeCreateStep(Topo)
    \/ MutateStep(Topo)
    \/ FireStep(Topo)
Spec == Init /\ [][Next]_vars

\* SpecFire: construction and fire, over the values
InitFire == InitR(Rich)
NextFire ==
    \/ AddLayerStep(Rich)
    \/ NodeCreateStep(Rich)
    \/ EdgeCreateStep(Rich)
    \/ FireStep(Rich)
SpecFire == InitFire /\ [][NextFire]_vars

\* SpecScenario: the calls of test_creation in their order, then test_io's fire
ScNodes == Len(network.nodes)
ScEdges == Len(network.edges)
InitScenario == InitR(Scen)
NextScenario ==
    \/ HiddenCount(network) = 0 /\ AddLayerStep(Scen)
    \/ /\ HiddenCount(network) = 1 /\ ScNodes = 2
       /\ \E b \in Scen.biases : NodeCreateAct(HiddenLayer(0), b, network.activation_fn, Scen)
    \/ /\ ScNodes = 3 /\ ScEdges = 0
       /\ \E w \in Scen.weights : EdgeCreateAct(1, 3, w, Scen)
    \/ /\ ScEdges = 1
       /\ \E w \in Scen.weights : EdgeCreateAct(3, 2, w, Scen)
    \/ /\ ScEdges = 2
       /\ \E w \in Scen.weights : EdgeCreateAct(1, 2, w, Scen)
    \/ /\ ScEdges = 3
       /\ \E x \in Scen.inputs, buf \in Scen.buffers : FireAct(<<x>>, buf)
SpecScenario == InitScenario /\ [][NextScenario]_vars

\* SpecSerde: construction with numbers that may not be finite, and the
\* round trip of lib.rs (test_serialization): serialize, deserialize, fire
\* the network and its copy on the same inputs
Serde == [biases |-> <<0, NaN>>, weights |-> <<2, NaN>>, acts |-> {Linear},
          inputs |-> {1, 2}, cts |-> {0, 1},
          maxNodes |-> MaxNodes, maxEdges |-> MaxEdges, maxHidden |-> MaxHidden]

SerdeInstall(op, r) ==
    /\ Len(r.net.nodes) <= Serde.maxNodes
    /\ Len(r.net.edges) <= Serde.maxEdges
    /\ HiddenCount(r.net) <= Serde.maxHidden
    /\ network' = r.net
    /\ ret' = Tag(op, <<>>, r.ret)
    /\ outputs' = <<>>
    /\ acts' = <<>>
    /\ assigned' = Max({assigned, MaxIdOrZero(r.net.nodes)})
    /\ memo' = NoMemo
    /\ args' = args
    /\ UNCHANGED <<environment, running>>

SerdeAddLayerAct ==
    \E r \in {add_layer(network)} :
        SerdeInstall("add_layer", [net |-> r.net, ret |-> Ok(r.ret.val.n)])

SerdeNodeCreateAct(layer_id, bias) ==
    \E r \in {NodeCreate(network, layer_id, bias)} : SerdeInstall("Node::create", r)

SerdeEdgeCreateAct(node_from_id, node_to_id, weight) ==
    \E r \in {EdgeCreate(network, node_from_id, node_to_id, weight)} :
        SerdeInstall("Edge::create", r)

\* test_serialization: outputs is expected_out, the value returned is actual_out
RoundTripAct(inputs) ==
    \E d \in {deserialized(serialize(network).val)} :
        IF ~d.ok
        THEN /\ ret' = Tag("test_serialization", <<>>, d)
             /\ UNCHANGED <<network, outputs, acts, assigned, memo, args, environment, running>>
        ELSE \E e \in {fire(network, inputs, <<>>)}, a \in {fire(d.val, inputs, <<>>)} :
                /\ network' = e.net
                /\ outputs' = e.outputs
                /\ acts' = e.acts
                /\ ret' = Tag("test_serialization", <<>>,
                              IF ~e.ret.ok THEN e.ret
                              ELSE IF ~a.ret.ok THEN a.ret ELSE Ok(a.outputs))
                /\ UNCHANGED <<assigned, memo, args, environment, running>>

InitSerde == InitR(Serde)
NextSerde ==
    \/ SerdeAddLayerAct
    \/ \E l \in LayerChoices(Serde), i \in 1..Len(Serde.biases) :
          SerdeNodeCreateAct(l, Serde.biases[i])
    \/ \E f \in NodeIdChoices(Serde), t \in NodeIdChoices(Serde), i \in 1..Len(Serde.weights) :
          SerdeEdgeCreateAct(f, t, Serde.weights[i])
    \/ \E inputs \in InputVectors(Serde) :
          Len(inputs) = InputCount(network) /\ RoundTripAct(inputs)
SpecSerde == InitSerde /\ [][NextSerde]_vars

\* SpecMutate: node creation and the mutation operators, with room for one
\* more node and one edge less than Spec
Mut == [Topo EXCEPT !.maxNodes = MaxNodes + 1, !.maxEdges = MaxEdges - 1]
InitMutate == InitR(Mut)
NextMutate ==
    \/ NodeCreateStep(Mut)
    \/ MutateStep(Mut)
SpecMutate == InitMutate /\ [][NextMutate]_vars

\* SpecDeep: every operation, with room for one more hidden layer and one
\* node less than Spec
Deep == [Topo EXCEPT !.maxHidden = MaxHidden + 1, !.maxNodes = MaxNodes - 1]
InitDeep == InitR(Deep)
NextDeep ==
    \/ AddLayerStep(Deep)
    \/ NodeCreateStep(Deep)
    \/ EdgeCreateStep(Deep)
    \/ MutateStep(Deep)
    \/ FireStep(Deep)
SpecDeep == InitDeep /\ [][NextDeep]_vars

\* SpecCmp: the comparison of layer.rs applied to any three layers
CmpLayers == {InputLayer, OutputLayer} \cup {HiddenLayer(i) : i \in 0..(MaxHidden + 1)}

CmpAct(a, b, c) ==
    /\ args' = <<a, b, c>>
    /\ ret' = Tag("cmp", <<>>, Ok(LayerCmp(a, b)))
    /\ UNCHANGED <<network, outputs, acts, assigned, memo, environment, running>>

InitCmp ==
    /\ network = NetworkCreate(0, 0, Linear).net
    /\ outputs = <<>>
    /\ acts = <<>>
    /\ assigned = 0
    /\ memo = NoMemo
    /\ environment = NoEnvironment
    /\ running = Idle
    /\ \E a \in CmpLayers, b \in CmpLayers, c \in CmpLayers :
          args = <<a, b, c>> /\ ret = Tag("cmp", <<>>, Ok(LayerCmp(a, b)))
NextCmp == \E a \in CmpLayers, b \in CmpLayers, c \in CmpLayers : CmpAct(a, b, c)
SpecCmp == InitCmp /\ [][NextCmp]_vars

\* SpecEvolve: Network::create(n, m), then mutation operators and fire only;
\* args keeps <<n, m>>
Evo == [Topo EXCEPT !.cts = {1}, !.maxNodes = MaxNodes + 1, !.maxEdges = MaxEdges + 1]

InitEvolve ==
    /\ \E input_ct \in Evo.cts, output_ct \in Evo.cts :
          /\ network = NetworkCreate(input_ct, output_ct, Linear).net
          /\ args = <<input_ct, output_ct>>
    /\ outputs = <<>>
    /\ ret = Tag("Network::create", <<>>, Ok(0))
    /\ acts = <<>>
    /\ assigned = MaxIdOrZero(network.nodes)
    /\ memo = NoMemo
    /\ environment = NoEnvironment
    /\ running = Idle

NextEvolve ==
    \/ MutateStep(Evo)
    \/ FireStep(Evo)
SpecEvolve == InitEvolve /\ [][NextEvolve]_vars

\* SpecTune: the mutation operators over the values of weights, biases and
\* activation functions, on the nodes Network::create made
Tune == [biases |-> {0, 1}, weights |-> {1, 2}, wdeltas |-> {-1, 1}, bdeltas |-> {-1, 1},
         acts |-> {Linear, ReLU}, inputs |-> {1}, buffers |-> {<<7>>}, cts |-> {0, 1},
         maxNodes |-> MaxNodes, maxEdges |-> MaxEdges, maxHidden |-> MaxHidden - 1]
InitTune == InitR(Tune)
NextTune == MutateStep(Tune)
SpecTune == InitTune /\ [][NextTune]_vars

\* SpecEnv: Environment::new with any settings, then run, one turn of its
\* loop at a time
Env == [sizes |-> 1..MaxPopulation,
        rates |-> {RangeInclusive(0, 1), RangeInclusive(MaxRate, MaxRate)},
        generations |-> 0..MaxGenerations,
        targets |-> {1}, fitnesses |-> {0, 1}, mutation_types |-> {0, 1}]

SettingsChoices(R) ==
    {[population_size |-> size, mutation_types |-> types, training_mode |-> mode,
      mutation_rate |-> rate, next_gen_threshold |-> threshold] :
        size \in R.sizes, types \in R.mutation_types,
        mode \in {NumGenerations(x) : x \in R.generations}
                 \cup {FitnessTarget(x) : x \in R.targets},
        rate \in R.rates, threshold \in R.sizes}

InitEnv ==
    /\ network = NetworkCreate(0, 0, Linear).net
    /\ outputs = <<>>
    /\ acts = <<>>
    /\ assigned = 0
    /\ memo = NoMemo
    /\ args = <<>>
    /\ running = Idle
    /\ ret = Tag("Environment::new", <<>>, Ok(0))
    /\ \E settings \in SettingsChoices(Env) :
          /\ settings.next_gen_threshold <= settings.population_size
          /\ environment = EnvironmentNew(settings)

\* one turn of the loop of run (lines 212-230), the first of a call when no
\* call is under way: next_generation()?, generation += 1, the match
RunTurn(g) ==
    LET executed == IF running.pc = "loop" THEN running.executed ELSE 0
        env == [environment EXCEPT !.population = g.population,
                                   !.generation = @ + 1]
    IN  IF g.status = "abort"
        THEN /\ environment' = [environment EXCEPT !.population = g.population]
             /\ running' = [pc |-> "abort", executed |-> executed]
             /\ ret' = Tag("run", <<>>, Err("panic"))
        ELSE IF g.status = "error"
        THEN /\ environment' = environment
             /\ running' = [pc |-> "idle", executed |-> executed]
             /\ ret' = Tag("run", <<>>, Err("No mutation types available"))
        ELSE /\ environment' = env
             /\ IF Break(env)
                THEN /\ running' = [pc |-> "idle", executed |-> executed + 1]
                     /\ ret' = Tag("run", <<>>, Ok(env.population[1]))
                ELSE /\ running' = [pc |-> "loop", executed |-> executed + 1]
                     /\ ret' = Tag("next_generation", <<>>, Ok(0))

RunAct ==
    /\ running.pc # "abort"
    /\ environment.generation <= MaxGenerations
    /\ \E g \in next_generation(environment, Env.fitnesses) : RunTurn(g)
    /\ UNCHANGED <<network, outputs, acts, assigned, memo, args>>

NextEnv == RunAct
SpecEnv == InitEnv /\ [][NextEnv]_vars

\* SpecAnySettings: as SpecEnv, with every Settings value: population_size
\* and next_gen_threshold from 0 and in any relation, and an empty
\* mutation_rate among the ranges
AnySettings == [Env EXCEPT !.sizes = 0..(MaxPopulation - 1),
                           !.rates = {RangeInclusive(0, 1), RangeInclusive(1, 0)},
                           !.generations = {MaxGenerations}]

InitAnySettings ==
    /\ network = NetworkCreate(0, 0, Linear).net
    /\ outputs = <<>>
    /\ acts = <<>>
    /\ assigned = 0
    /\ memo = NoMemo
    /\ args = <<>>
    /\ running = Idle
    /\ ret = Tag("Environment::new", <<>>, Ok(0))
    /\ \E settings \in SettingsChoices(AnySettings) :
          environment = EnvironmentNew(settings)

NextAnySettings == RunAct
SpecAnySettings == InitAnySettings /\ [][NextAnySettings]_vars

(***************************************************************************)
(* The claims.  The order of the layers is written out here as the data    *)
(* model states it: Input < Hidden(0) < Hidden(1) < ... < Output.          *)
(***************************************************************************)
\* layer a comes strictly after layer b
Succeeds(a, b) ==
    \/ b.kind = "InputLayer" /\ a.kind # "InputLayer"
    \/ a.kind = "OutputLayer" /\ b.kind # "OutputLayer"
    \/ a.kind = "HiddenLayer" /\ b.kind = "HiddenLayer" /\ a.n > b.n

NodeIds == {network.nodes[i].id : i \in 1..Len(network.nodes)}
EdgeIds == {network.edges[i].id : i \in 1..Len(network.edges)}
LayerOfId(id) == network.nodes[CHOOSE i \in 1..Len(network.nodes) : network.nodes[i].id = id].layer_id
KindCount(kind) ==
    Cardinality({i \in 1..Len(network.nodes) : network.nodes[i].layer_id.kind = kind})
FireReturned == ret.op = "fire" /\ ret.ok

\* C1: in every reachable state, every edge whose endpoints are in the network
\* leads from a layer to a strictly later layer: no same-layer edge, no
\* backward edge, also after RemoveNode and later node creations.
C1_EdgesGoForward ==
    \A i \in 1..Len(network.edges) :
        LET e == network.edges[i] IN
        (e.node_from_id \in NodeIds /\ e.node_to_id \in NodeIds)
            => Succeeds(LayerOfId(e.node_to_id), LayerOfId(e.node_from_id))

\* C1 witness: an edge was created in a network from which a node had been
\* removed before (fewer nodes than ids handed out)
C1_Witness ==
    /\ ret.op = "Edge::create" /\ ret.ok
    /\ Len(network.edges) >= 1
    /\ Len(network.nodes) < assigned

\* the endpoints of every edge are nodes of the network
EdgesResolve ==
    \A i \in 1..Len(network.edges) :
        network.edges[i].node_from_id \in NodeIds /\ network.edges[i].node_to_id \in NodeIds

\* C2: every edge's node_from_id and node_to_id resolve to a node of the
\* network in every reachable state, and a step that takes a node out of the
\* network leaves no edge with that node's id as source or destination.
C2_ReferentialIntegrity ==
    /\ []EdgesResolve
    /\ [][\A id \in NodeIds :
             id \notin {network'.nodes[i].id : i \in 1..Len(network'.nodes)}
             => \A k \in 1..Len(network'.edges) :
                   /\ network'.edges[k].node_from_id # id
                   /\ network'.edges[k].node_to_id # id]_vars

\* C2 witness: RemoveNode itself (no fallback) has removed a node
C2_Witness ==
    /\ ret.op = "mutate" /\ ret.ok /\ ret.chain = <<"RemoveNode">>
    /\ Len(network.nodes) < assigned

\* the endpoints Edge::create must reject
BadEndpoints(f, t) ==
    \/ f \notin NodeIds
    \/ t \notin NodeIds
    \/ ~Succeeds(LayerOfId(t), LayerOfId(f))

\* C3: an Edge::create whose source or destination id is not a node of the
\* network, or whose destination layer does not come strictly after its source
\* layer, returns an error and leaves nodes, edges and layers as they were.
\* (Stated by contraposition: an Edge::create step that did not end in "error,
\* network unchanged" is no call with such endpoints.)
C3_EdgeCreateRejects ==
    [][(ret'.op = "Edge::create" /\ ~(~ret'.ok /\ network' = network))
          => \A f \in NodeIdChoices(Topo), t \in NodeIdChoices(Topo), w \in Topo.weights :
                EdgeCreateAct(f, t, w, Topo) => ~BadEndpoints(f, t)]_vars

\* C3 witness: Edge::create has refused two nodes of the same layer
C3_Witness ==
    /\ ret.op = "Edge::create" /\ ~ret.ok
    /\ ret.err = "node_to must be in a layer after node_from"
    /\ \E i, j \in 1..Len(network.nodes) :
          i # j /\ network.nodes[i].layer_id = network.nodes[j].layer_id

\* C4: after a fire pass every Hidden and every Output node has had its bias
\* added and its activation applied exactly once, and no Input node at all.
C4_ActivatedExactlyOnce ==
    FireReturned =>
        \A i \in 1..Len(network.nodes) :
            acts[i] = IF network.nodes[i].layer_id.kind = "InputLayer" THEN 0 ELSE 1

\* the Output nodes, in enumeration order
OutputNodes ==
    LET T(n) == n.layer_id.kind = "OutputLayer" IN SelectSeq(network.nodes, T)

\* C5: on a network without edges a successful fire returns, for each Output
\* node in enumeration order, activation(bias) of that node.
C5_NoEdgesGivesActivatedBias ==
    (FireReturned /\ Len(network.edges) = 0) =>
        outputs = [i \in 1..Len(OutputNodes) |->
                      Run(OutputNodes[i].activation_fn, OutputNodes[i].bias)]

\* the network of C6: one Input node, one Hidden node, one Output node with
\* bias 0, Linear everywhere, edges input->hidden, hidden->output, input->output
ScNode(kind) == CHOOSE n \in {network.nodes[i] : i \in 1..Len(network.nodes)} :
                    n.layer_id.kind = kind
ScWeight(from, to) ==
    (CHOOSE e \in {network.edges[i] : i \in 1..Len(network.edges)} :
        e.node_from_id = from.id /\ e.node_to_id = to.id).weight
ScHasEdge(from, to) ==
    Cardinality({i \in 1..Len(network.edges) :
        network.edges[i].node_from_id = from.id /\ network.edges[i].node_to_id = to.id}) = 1
ScShape ==
    /\ Len(network.nodes) = 3 /\ Len(network.edges) = 3
    /\ KindCount("InputLayer") = 1 /\ KindCount("HiddenLayer") = 1
    /\ KindCount("OutputLayer") = 1
    /\ \A i \in 1..3 : network.nodes[i].activation_fn = Linear
    /\ ScNode("OutputLayer").bias = 0
    /\ ScHasEdge(ScNode("InputLayer"), ScNode("HiddenLayer"))
    /\ ScHasEdge(ScNode("HiddenLayer"), ScNode("OutputLayer"))
    /\ ScHasEdge(ScNode("InputLayer"), ScNode("OutputLayer"))

AllValuesZero == \A i \in 1..Len(network.nodes) : network.nodes[i].value = 0

\* C7: every node's accumulator is 0 after a fire, and a fire with the input
\* vector of an earlier successful fire of the same network succeeds with the
\* same outputs, whatever was fired in between.
C7_NoResidualState ==
    /\ [](FireReturned => AllValuesZero)
    /\ [][(ret'.op = "fire" /\ memo.set)
             => \A buf \in Rich.buffers :
                   FireAct(memo.inputs, buf) => (ret'.ok /\ outputs' = memo.outputs)]_vars

\* C7 witness: a network with an edge has been fired, and fired again with
\* another input that gave other outputs
C7_Witness ==
    /\ FireReturned /\ memo.set
    /\ Len(network.edges) >= 1
    /\ outputs # memo.outputs

\* C8: a fire whose input vector is not as long as the number of Input nodes
\* returns an error and changes neither a node nor the caller's buffer.
C8_WrongInputLengthRejected ==
    [][ret'.op = "fire"
          => \A inputs \in InputVectors(Topo), buf \in Topo.buffers :
                (Len(inputs) # KindCount("InputLayer") /\ FireAct(inputs, buf))
                    => (~ret'.ok /\ network' = network /\ outputs' = buf)]_vars

\* C8 witness: a fire on a network with an Input node was refused and the
\* buffer still holds what the caller had put in it
C8_Witness ==
    /\ ret.op = "fire" /\ ~ret.ok
    /\ KindCount("InputLayer") >= 1
    /\ outputs = <<7>>

\* C9: the id of a newly created node is greater than every id assigned
\* before in this network, so no id of a removed node comes back.
C9_IdsNeverReused ==
    [][Len(network'.nodes) > Len(network.nodes)
          => network'.nodes[Len(network'.nodes)].id > assigned]_vars

AllFinite(net) ==
    /\ \A i \in 1..Len(net.nodes) : IsFinite(net.nodes[i].bias) /\ IsFinite(net.nodes[i].value)
    /\ \A i \in 1..Len(net.edges) : IsFinite(net.edges[i].weight)

\* the round trip of a network without NaN gives the network back, and the
\* copy fires as the network does
RoundTripOfFinite ==
    AllFinite(network) =>
        /\ deserialized(serialize(network).val) = Ok(network)
        /\ ret.op = "test_serialization" => (ret.ok /\ ret.val = outputs)

\* C11: after the round trip of any network, deserialized(serialize(n)) exists
\* and, fired on an input vector of the right length, returns the outputs
\* that n returns on the same inputs.
C11_RoundTripFiresIdentically ==
    ret.op = "test_serialization" => (ret.ok /\ ret.val = outputs)

\* the reverse of an Ordering
Reverse(o) == IF o = "Less" THEN "Greater" ELSE IF o = "Greater" THEN "Less" ELSE "Equal"

\* C12: the comparison of layers is a strict total order consistent with
\* equality: Input is below and Output above every other layer, Hidden(i) is
\* below Hidden(j) exactly when i < j, cmp is Equal exactly when the layers
\* are equal, cmp(b, a) is the reverse of cmp(a, b), and < is transitive.
C12_LayerOrderTotal ==
    ret.op = "cmp" =>
        LET a == args[1]
            b == args[2]
            c == args[3]
        IN  /\ ret.val \in {"Less", "Equal", "Greater"}
            /\ (a = InputLayer /\ b # InputLayer) => ret.val = "Less"
            /\ (a = OutputLayer /\ b # OutputLayer) => ret.val = "Greater"
            /\ (is_hidden(a) /\ is_hidden(b)) => (LayerLt(a, b) <=> a.n < b.n)
            /\ (ret.val = "Equal") <=> LayerEq(a, b)
            /\ LayerEq(a, b) <=> (a = b)
            /\ LayerCmp(b, a) = Reverse(ret.val)
            /\ (LayerLt(a, b) /\ LayerLt(b, c)) => LayerLt(a, c)

\* two different hidden layers were compared with a third layer between them
C12_Witness ==
    /\ ret.op = "cmp"
    /\ is_hidden(args[1]) /\ is_hidden(args[2]) /\ args[3] = OutputLayer
    /\ args[1].n < args[2].n
    /\ ret.val = "Less"

\* the node kind that belongs to a layer id
KindOfLayer(l) ==
    IF l = InputLayer THEN "InputNode" ELSE IF l = OutputLayer THEN "OutputNode" ELSE "HiddenNode"

\* C13: a node creation for a layer id that is not among the declared layers
\* returns an error and leaves nodes, edges and layers unchanged; a creation
\* that succeeds appends exactly one node, of the kind of its layer id and with
\* accumulator 0, and changes nothing else.
C13_NodeCreateChecksLayer ==
    [][ret'.op = "Node::create"
          => \A l \in LayerChoices(Topo), b \in Topo.biases, a \in Topo.acts :
                NodeCreateAct(l, b, a, Topo)
                    => IF \A i \in 1..Len(network.layers) : network.layers[i] # l
                       THEN ~ret'.ok /\ network' = network
                       ELSE /\ ret'.ok
                            /\ Len(network'.nodes) = Len(network.nodes) + 1
                            /\ SubSeq(network'.nodes, 1, Len(network.nodes)) = network.nodes
                            /\ network'.edges = network.edges
                            /\ network'.layers = network.layers
                            /\ LET node == network'.nodes[Len(network'.nodes)]
                               IN  /\ node.layer_id = l
                                   /\ node.node_type = KindOfLayer(l)
                                   /\ node.value = 0
                                   /\ node.id = ret'.val]_vars

\* a creation was refused for an undeclared layer in a network that has nodes
C13_Witness ==
    /\ ret.op = "Node::create" /\ ~ret.ok
    /\ ret.err = "Layer does not exist"
    /\ Len(network.nodes) > 0
    /\ HiddenCount(network) = 0

\* the ordinals of the declared hidden layers
HiddenOrdinals(layers) == {layers[i].n : i \in {j \in 1..Len(layers) : layers[j].kind = "HiddenLayer"}}

LayersWellFormed ==
    LET layers == network.layers
        At(l) == {i \in 1..Len(layers) : layers[i] = l}
        H == {i \in 1..Len(layers) : layers[i].kind = "HiddenLayer"}
    IN  /\ Cardinality(At(InputLayer)) = 1
        /\ Cardinality(At(OutputLayer)) = 1
        /\ \A i \in H, j \in H : i # j => layers[i].n # layers[j].n
        /\ HiddenOrdinals(layers) = 0..(Cardinality(H) - 1)

\* C14: the declared layers always hold exactly one Input, exactly one Output
\* and Hidden layers with distinct ordinals 0..k-1; an add_layer call appends
\* and returns Hidden(k), one past the highest Hidden ordinal (Hidden(0) when
\* there is none), and changes nothing else.
C14_LayersContiguous ==
    /\ []LayersWellFormed
    /\ [][ret'.op = "add_layer"
             => LET old == HiddenOrdinals(network.layers)
                    k == IF old = {} THEN 0 ELSE Max(old) + 1
                IN  /\ ret'.ok /\ ret'.val = k
                    /\ network'.layers = Append(network.layers, HiddenLayer(k))
                    /\ network'.nodes = network.nodes
                    /\ network'.edges = network.edges
                    /\ network'.activation_fn = network.activation_fn]_vars

\* add_layer has declared Hidden(1) after Hidden(0)
C14_Witness ==
    /\ ret.op = "add_layer" /\ ret.val = 1
    /\ HiddenOrdinals(network.layers) = {0, 1}

\* no two nodes of the network are in different layers (so also: no node, one node)
NoCrossLayerPair(net) ==
    \A i \in 1..Len(net.nodes), j \in 1..Len(net.nodes) :
        net.nodes[i].layer_id = net.nodes[j].layer_id

\* C15: the AddEdge mutation applied to a network with no nodes, with one
\* node, or with no two nodes in different layers returns no error: it enters
\* the AddNode fallback, which adds a Hidden node, and returns success without
\* creating an edge.
C15_AddEdgeFallsBack ==
    [][(ret'.op = "mutate" /\ ret'.chain[1] = "AddEdge" /\ NoCrossLayerPair(network))
          => /\ ret'.ok
             /\ Len(ret'.chain) >= 2 /\ ret'.chain[2] = "AddNode"
             /\ network'.edges = network.edges
             /\ Len(network'.nodes) = Len(network.nodes) + 1
             /\ SubSeq(network'.nodes, 1, Len(network.nodes)) = network.nodes
             /\ network'.nodes[Len(network'.nodes)].node_type = "HiddenNode"
             /\ network'.nodes[Len(network'.nodes)].layer_id.kind = "HiddenLayer"]_vars

\* AddEdge met two Input nodes and nothing else, and fell back to AddNode
C15_Witness ==
    /\ ret.op = "mutate" /\ ret.ok
    /\ Len(ret.chain) >= 2 /\ ret.chain[1] = "AddEdge" /\ ret.chain[2] = "AddNode"
    /\ Len(network.nodes) = 3
    /\ network.nodes[1].layer_id = InputLayer /\ network.nodes[2].layer_id = InputLayer
    /\ network.nodes[3].node_type = "HiddenNode"
    /\ network.edges = <<>>

\* C16: RemoveNode applied to a network without any node returns an error to
\* the caller and leaves the network unchanged; it enters no fallback operator.
C16_RemoveNodeOnEmptyIsFatal ==
    [][(ret'.op = "mutate" /\ ret'.chain[1] = "RemoveNode" /\ Len(network.nodes) = 0)
          => /\ ~ret'.ok
             /\ ret'.chain = <<"RemoveNode">>
             /\ network' = network]_vars

\* the ids of the nodes of one kind
IdsOfKind(net, kind) ==
    {net.nodes[i].id : i \in {j \in 1..Len(net.nodes) : net.nodes[j].node_type = kind}}

\* C17: no mutation, whatever fallback it enters, adds or removes an Input or
\* an Output node: the ids of the Input nodes and of the Output nodes are the
\* same before and after; and when RemoveNode itself applies, the one node it
\* deletes is a Hidden node.
C17_MutationsKeepInputsOutputs ==
    [][ret'.op = "mutate"
          => /\ IdsOfKind(network', "InputNode") = IdsOfKind(network, "InputNode")
             /\ IdsOfKind(network', "OutputNode") = IdsOfKind(network, "OutputNode")
             /\ ret'.chain[Len(ret'.chain)] = "RemoveNode"
                   => LET gone == {i \in 1..Len(network.nodes) :
                                     \A j \in 1..Len(network'.nodes) :
                                         network'.nodes[j].id # network.nodes[i].id}
                      IN  /\ Cardinality(gone) = 1
                          /\ \A i \in gone : network.nodes[i].node_type = "HiddenNode"]_vars

\* RemoveNode has deleted the only Hidden node of a network that has an Input node
C17_Witness ==
    /\ ret.op = "mutate" /\ ret.ok /\ ret.chain = <<"RemoveNode">>
    /\ IdsOfKind(network, "InputNode") # {}
    /\ IdsOfKind(network, "HiddenNode") = {}
    /\ HiddenCount(network) = 1

\* a generation step has completed
GenerationDone == ret.op \in {"run", "next_generation"} /\ ret.ok

\* C18: after every generation step the population holds exactly
\* settings.population_size individuals, each cloned from one of the top
\* next_gen_threshold individuals of the previous sorted population, for
\* every setting with 1 <= next_gen_threshold <= population_size.
C18_PopulationSizeKept ==
    (/\ GenerationDone
     /\ 1 <= environment.settings.next_gen_threshold
     /\ environment.settings.next_gen_threshold <= environment.settings.population_size)
        => /\ Len(environment.population) = environment.settings.population_size
           /\ \A i \in 1..Len(environment.population) :
                 environment.population[i].seed \in 1..environment.settings.next_gen_threshold

\* C19: in each generation the number of mutation operators applied to an
\* individual of the new population is one value of settings.mutation_rate:
\* it lies between the start and the end of the range.
C19_MutationCountInRange ==
    GenerationDone
        => \A i \in 1..Len(environment.population) :
              /\ environment.settings.mutation_rate.start <= environment.population[i].own
              /\ environment.population[i].own <= environment.settings.mutation_rate.end

\* C20: under NumGenerations(n) a call of run on a new Environment never
\* executes more than n generations, for every n >= 0; for n >= 1 it returns
\* after exactly n generations with the generation counter at n.
C20_NumGenerationsBound ==
    (/\ environment.settings.training_mode.mode = "NumGenerations"
     /\ environment.generation = running.executed)
        => LET n == environment.settings.training_mode.x
           IN  /\ running.executed <= n
               /\ (ret.op = "run" /\ ret.ok /\ n >= 1)
                     => (running.executed = n /\ environment.generation = n)

\* the rank-0 individual has a recorded fitness at or above the target x
TargetReached ==
    /\ Len(environment.population) > 0
    /\ environment.population[1].fitness.some
    /\ environment.population[1].fitness.val >= environment.settings.training_mode.x

\* C21: under FitnessTarget(x) run returns a champion only when the rank-0
\* individual's recorded fitness is >= x, and it returns at the end of the
\* first generation in which that holds: after a generation the call has
\* returned exactly when the target is reached, so the loop goes on as long
\* as no generation reaches x.
C21_FitnessTargetStops ==
    (environment.settings.training_mode.mode = "FitnessTarget" /\ GenerationDone)
        => (ret.op = "run" <=> TargetReached)

\* run has returned under FitnessTarget after a generation that missed the
\* target and one that reached it
C21_Witness ==
    /\ environment.settings.training_mode.mode = "FitnessTarget"
    /\ ret.op = "run" /\ ret.ok
    /\ running.executed >= 2
    /\ TargetReached

\* C22: the champion run returns is the rank-0 individual of the last
\* selection: every individual of the final population has a fitness recorded
\* from the evaluator, the population is sorted descending by fitness, and no
\* individual has a higher fitness than the champion.
C22_ChampionIsRankZero ==
    (ret.op = "run" /\ ret.ok)
        => LET population == environment.population
           IN  /\ Len(population) > 0
               /\ ret.val = population[1]
               /\ \A i \in 1..Len(population) :
                     /\ population[i].fitness.some
                     /\ population[i].fitness.val \in Env.fitnesses
                     /\ ret.val.fitness.val >= population[i].fitness.val
               /\ \A i \in 1..(Len(population) - 1) :
                     population[i].fitness.val >= population[i + 1].fitness.val

\* run has returned a champion from a population whose fitnesses differ
C22_Witness ==
    /\ ret.op = "run" /\ ret.ok
    /\ \E i \in 1..Len(environment.population) :
          environment.population[i].fitness.val < ret.val.fitness.val

\* C23: for every Settings value (next_gen_threshold 0 or above
\* population_size, population_size 0, no mutation types, an empty
\* mutation_rate) run returns a champion or an error value: it never aborts
\* the process on an empty population or on a draw from an empty range.
C23_RunNeverAborts == running.pc # "abort"

\* C26: the individuals of a new generation are isolated from each other:
\* each is a clone of its seed with only its own drawn mutations applied, so
\* the operators its Network object has received since the clone are the
\* ones drawn for it and none of those drawn for a sibling of the same seed.
C26_SiblingsIsolated ==
    GenerationDone
        => \A i \in 1..Len(environment.population) :
              environment.population[i].applied = environment.population[i].own

\* C24: every mutate call terminates, from every network state: the call
\* enters no operator twice, takes at most three fallback hops after the
\* operator requested, and ends in an operator that applies (it returns Ok).
C24_FallbackChainBounded ==
    ret.op = "mutate"
        => /\ ret.ok
           /\ Len(ret.chain) >= 1
           /\ Len(ret.chain) - 1 <= 3
           /\ \A i, j \in 1..Len(ret.chain) : ret.chain[i] = ret.chain[j] => i = j

\* a call on a network with no node, no edge and no Hidden layer has gone
\* through three fallbacks and ended in AddLayer
C24_Witness ==
    /\ ret.op = "mutate" /\ ret.ok
    /\ Len(ret.chain) = 4
    /\ ret.chain[4] = "AddLayer"
    /\ Len(network.nodes) = 1
    /\ HiddenCount(network) = 1

\* C27: on every network reached from Network::create(n, m) by mutation
\* operators, fire with n inputs succeeds with exactly m output values: the
\* network keeps n Input nodes, and the only error fire ever returns is the
\* one for a wrong number of inputs, never "Layer does not exist", "Node from
\* does not exist", "Node to does not exist" or "Output layer does not
\* exist", also after RemoveNode has emptied a Hidden layer.
C27_FireAfterMutations ==
    /\ InputCount(network) = args[1]
    /\ ret.op = "fire"
          => IF ret.ok THEN Len(outputs) = args[2]
             ELSE ret.err = "Number of inputs does not match number of input nodes"

\* fire has succeeded on a network whose Hidden layer RemoveNode has emptied
C27_Witness ==
    /\ ret.op = "fire" /\ ret.ok
    /\ Len(outputs) = 1
    /\ HiddenCount(network) = 1
    /\ IdsOfKind(network, "HiddenNode") = {}
    /\ assigned > MaxIdOrZero(network.nodes)

\* no two edges of the network have the same source and destination
NoParallelEdges(net) ==
    \A i, j \in 1..Len(net.edges) :
        (/\ net.edges[i].node_from_id = net.edges[j].node_from_id
         /\ net.edges[i].node_to_id = net.edges[j].node_to_id) => i = j

\* C28: mutation operators never make two edges with the same (source,
\* destination) pair out of a network that has none: AddEdge on a connected
\* pair goes to ChangeWeight and the number of edges stays.
C28_NoParallelEdges ==
    [][(ret'.op = "mutate" /\ NoParallelEdges(network))
          => /\ NoParallelEdges(network')
             /\ (Len(ret'.chain) >= 2 /\ ret'.chain[1] = "AddEdge"
                    /\ ret'.chain[2] = "ChangeWeight")
                   => /\ Len(network'.edges) = Len(network.edges)
                      /\ \E e \in 1..Len(network.edges) :
                            AnyEdge(network, network.edges[e].node_from_id,
                                    network.edges[e].node_to_id)]_vars

\* AddEdge has met a connected pair and gone to ChangeWeight, in a network
\* with room for a second edge
C28_Witness ==
    /\ ret.op = "mutate" /\ ret.ok
    /\ ret.chain = <<"AddEdge", "ChangeWeight">>
    /\ Len(network.edges) = 1
    /\ Len(network.edges) < Evo.maxEdges

\* the positions at which two vectors of equal length differ
Changed(before, after) == {i \in 1..Len(before) : after[i] # before[i]}

\* the network's nodes, edges, edge endpoints, node layers and declared
\* layers are the same in the two networks
SameTopology(before, after) ==
    /\ after.layers = before.layers
    /\ Len(after.nodes) = Len(before.nodes)
    /\ Len(after.edges) = Len(before.edges)
    /\ \A i \in 1..Len(before.nodes) :
          /\ after.nodes[i].id = before.nodes[i].id
          /\ after.nodes[i].layer_id = before.nodes[i].layer_id
          /\ after.nodes[i].node_type = before.nodes[i].node_type
    /\ \A i \in 1..Len(before.edges) :
          /\ after.edges[i].id = before.edges[i].id
          /\ after.edges[i].node_from_id = before.edges[i].node_from_id
          /\ after.edges[i].node_to_id = before.edges[i].node_to_id

C25_FireInDependencyOrder ==
    LET trace == FireTrace(network, network.layers)
    IN  \A k \in 1..Len(trace) :
          trace[k].ev = "edge"
             => LET source == trace[k].from
                    node == network.nodes[get_node(network, source)]
                IN  /\ \A e \in 1..Len(network.edges) :
                          network.edges[e].node_to_id = source
                             => \E j \in 1..(k - 1) :
                                   /\ trace[j].ev = "edge"
                                   /\ trace[j].from = network.edges[e].node_from_id
                                   /\ trace[j].to = source
                    /\ is_hidden(node.layer_id)
                          => \E j \in 1..(k - 1) :
                                trace[j].ev = "activate" /\ trace[j].to = source
                    /\ \A j \in (k + 1)..Len(trace) : trace[j].to # source

\* fire has succeeded on a network whose Hidden node has an edge from an
\* Input node and an edge to an Output node
C25_Witness ==
    /\ ret.op = "fire" /\ ret.ok
    /\ \E h \in IdsOfKind(network, "HiddenNode") :
          /\ \E i \in IdsOfKind(network, "InputNode") : AnyEdge(network, i, h)
          /\ \E o \in IdsOfKind(network, "OutputNode") : AnyEdge(network, h, o)

====
